---- MODULE Spec2Model ----
(***************************************************************************)
(* FEAL-8, September 1989 implementation                                   *)
(* (src/experiments/feal/feal8_1989_portable.c).                           *)
(*                                                                         *)
(* The program keeps the expanded key in the globals K[16], K89, K1011,    *)
(* K1213, K1415 and the Rot2 lookup table in the function statics First    *)
(* and RetVal.  Its operations are SetKey, Encrypt and Decrypt.            *)
(*                                                                         *)
(* Integers are moved between bytes and words through unions               *)
(* { unsigned long All; ByteType Byte[4]; }, so what a word holds depends  *)
(* on the host's byte order and on sizeof(long) and sizeof(int).  The host *)
(* is therefore part of the state: it is chosen in Init and never changes. *)
(*                                                                         *)
(* An integer value is written as its base-256 digits, least significant   *)
(* digit first, one digit per byte of the C type (a 64-bit unsigned long   *)
(* is a sequence of 8 digits).  TLC's integers are too narrow to hold a    *)
(* 32-bit unsigned value.                                                  *)
(***************************************************************************)
EXTENDS Integers, Sequences, FiniteSets, TLC

VARIABLES
    host,       \* the build: byte order, sizeof(unsigned long), sizeof(unsigned int)
    K,          \* QuarterWord K[16]
    K89,        \* HalfWord K89
    K1011,      \* HalfWord K1011
    K1213,      \* HalfWord K1213
    K1415,      \* HalfWord K1415
    First,      \* static int First of Rot2
    RetVal,     \* static ByteType RetVal[256] of Rot2: entry x is RetVal[x + 1]
    hist,       \* the calls made so far: [op, in, out, ...] records
    pc,         \* concurrent specifications: each thread's position
    loc         \* concurrent specifications: each thread's locals

vars == <<host, K, K89, K1011, K1213, K1415, First, RetVal, hist, pc, loc>>

globals == <<K, K89, K1011, K1213, K1415>>

-----------------------------------------------------------------------------
(* Bytes and bitwise operations on them *)

TableSize == 256

ByteType == 0 .. (TableSize - 1)

RECURSIVE BitXor(_, _, _)
BitXor(a, b, n) ==
    IF n = 0 THEN 0
    ELSE (((a % 2) + (b % 2)) % 2) + 2 * BitXor(a \div 2, b \div 2, n - 1)

RECURSIVE BitOr(_, _, _)
BitOr(a, b, n) ==
    IF n = 0 THEN 0
    ELSE (IF (a % 2) = 1 \/ (b % 2) = 1 THEN 1 ELSE 0)
         + 2 * BitOr(a \div 2, b \div 2, n - 1)

NibbleXor == [a \in 0 .. 15 |-> [b \in 0 .. 15 |-> BitXor(a, b, 4)]]

\* the C operator ^ on two bytes
Xor(a, b) == 16 * NibbleXor[a \div 16][b \div 16] + NibbleXor[(a % 16)][(b % 16)]

\* the C operator ^ on two integers of the same type, digit by digit
XorW(v, w) == [i \in 1 .. Len(v) |-> Xor(v[i], w[i])]

Zeros(n) == [i \in 1 .. n |-> 0]

Reverse(s) == [i \in 1 .. Len(s) |-> s[Len(s) + 1 - i]]

-----------------------------------------------------------------------------
(* The host and the object representation of integers *)

Hosts ==
    { [endian |-> "little", sizeofLong |-> 8, sizeofInt |-> 4],    \* LP64
      [endian |-> "little", sizeofLong |-> 4, sizeofInt |-> 4],    \* ILP32
      [endian |-> "big",    sizeofLong |-> 8, sizeofInt |-> 4],
      [endian |-> "big",    sizeofLong |-> 4, sizeofInt |-> 4],
      [endian |-> "little", sizeofLong |-> 4, sizeofInt |-> 2] }   \* 16-bit int

\* the bytes of an integer in memory, lowest address first
ObjRep(v) == IF host.endian = "little" THEN v ELSE Reverse(v)

\* the integer that the bytes mem, lowest address first, represent
ValueOf(mem) == IF host.endian = "little" THEN mem ELSE Reverse(mem)

\* LongOfBytes with the union left uninitialised: the bytes of All that
\* Byte[0..3] does not cover hold what the stack held (0xCC here)
LongOfBytes_Uninit(b) ==
    ValueOf([i \in 1 .. host.sizeofLong |-> IF i <= 4 THEN b[i] ELSE 204])

\* union { unsigned long All; ByteType Byte[4]; } u = {0}; u.Byte[0..3] = b;
\* then u.All
LongOfBytes(b) ==
    ValueOf([i \in 1 .. host.sizeofLong |-> IF i <= 4 THEN b[i] ELSE 0])

\* union { unsigned long All; ByteType Byte[4]; } u; u.All = v; then u.Byte[0..3]
BytesOfLong(v) == SubSeq(ObjRep(v), 1, 4)

\* IntOfBytes with the union Q left uninitialised
IntOfBytes_Uninit(b) ==
    ValueOf([i \in 1 .. host.sizeofInt |-> IF i <= 2 THEN b[i] ELSE 204])

\* union { QuarterWord All; ByteType Byte[2]; } Q = {0}; Q.Byte[0..1] = b;
\* then Q.All
IntOfBytes(b) ==
    ValueOf([i \in 1 .. host.sizeofInt |-> IF i <= 2 THEN b[i] ELSE 0])

\* union { QuarterWord All; ByteType Byte[2]; } u; u.All = v; then u.Byte[0..1]
BytesOfInt(v) == SubSeq(ObjRep(v), 1, 2)

-----------------------------------------------------------------------------
(* Rot2, S0, S1 *)

\* Rot2LoopBody with the wrap test off by one (High > 256)
Rot2LoopBody_WrapLate(s) ==
    IF s.i < TableSize
    THEN [RetVal |-> [s.RetVal EXCEPT ![s.i + 1] = (s.High + s.Low) % 256],
          i      |-> s.i + 1,
          High   |-> IF s.High + 4 > 256 THEN 0 ELSE s.High + 4,
          Low    |-> IF s.High + 4 > 256 THEN s.Low + 1 ELSE s.Low]
    ELSE s

\* One iteration of the loop of Rot2 with its test `i < 256` and its `++i`:
\*     RetVal[i] = High + Low; High += 4; if (High > 255) { High = 0; ++Low; }
Rot2LoopBody(s) ==
    IF s.i < TableSize
    THEN [RetVal |-> [s.RetVal EXCEPT ![s.i + 1] = (s.High + s.Low) % 256],
          i      |-> s.i + 1,
          High   |-> IF s.High + 4 > 255 THEN 0 ELSE s.High + 4,
          Low    |-> IF s.High + 4 > 255 THEN s.Low + 1 ELSE s.Low]
    ELSE s

\* n iterations of the loop from state s.  The iterations are taken half by
\* half, the second half only when the first leaves i < 256, so that TLC's
\* evaluation stays shallow.
RECURSIVE Rot2Loop(_, _)
Rot2Loop(n, s) ==
    IF n = 0 THEN s
    ELSE IF n = 1 THEN Rot2LoopBody(s)
    ELSE LET half == Rot2Loop(n \div 2, s)
         IN  IF half.i < TableSize THEN Rot2Loop(n - (n \div 2), half) ELSE half

\* `for (i = 0, High = 0, Low = 0; i < 256; ++i)` run to its end
Rot2Built ==
    Rot2Loop(TableSize,
             [RetVal |-> [x \in 1 .. TableSize |-> 0], i |-> 0, High |-> 0, Low |-> 0]).RetVal

\* RetVal as the block `if (First) { ... }` leaves it: the loop stores to
\* every entry, so what it leaves does not depend on what RetVal held
Rot2Table(first, retVal) ==
    IF first # 0 THEN Rot2Built ELSE retVal

\* return RetVal[X], T being RetVal after the `if (First)` block
Rot2(X, T) == T[X + 1]

S0(X1, X2, T) == Rot2((X1 + X2) % 256, T)

\* S1 without its + 1
S1_NoPlusOne(X1, X2, T) == Rot2((X1 + X2) % 256, T)

S1(X1, X2, T) == Rot2((X1 + X2 + 1) % 256, T)

-----------------------------------------------------------------------------
(* Conversions *)

MakeH1(B) == LongOfBytes(B)

\* DissH1 writing the four bytes in the opposite order
DissH1_Reversed(H) == Reverse(BytesOfLong(H))

DissH1(H) == BytesOfLong(H)

DissQ1(Q) == BytesOfInt(Q)

\* Q: the two quarterwords Q[0], Q[1] the pointer refers to
MakeH2(Q) == MakeH1(DissQ1(Q[1]) \o DissQ1(Q[2]))

-----------------------------------------------------------------------------
(* f and FK *)

\* f with `f1 = S0(f1, f2)` written for `f1 = S1(f1, f2)`
f_S0First(AA, BB, T) ==
    LET A   == ObjRep(AA)
        B   == ObjRep(BB)
        f1a == Xor(Xor(A[2], B[1]), A[1])
        f2a == Xor(Xor(A[3], B[2]), A[4])
        f1  == S0(f1a, f2a, T)
        f2  == S0(f2a, f1, T)
    IN  LongOfBytes(<<S0(A[1], f1, T), f1, f2, S1(A[4], f2, T)>>)

f(AA, BB, T) ==
    LET A   == ObjRep(AA)
        B   == ObjRep(BB)
        f1a == Xor(Xor(A[2], B[1]), A[1])
        f2a == Xor(Xor(A[3], B[2]), A[4])
        f1  == S1(f1a, f2a, T)
        f2  == S0(f2a, f1, T)
    IN  LongOfBytes(<<S0(A[1], f1, T), f1, f2, S1(A[4], f2, T)>>)

FK(AA, BB, T) ==
    LET A    == ObjRep(AA)
        B    == ObjRep(BB)
        FK1a == Xor(A[2], A[1])
        FK2a == Xor(A[3], A[4])
        FK1  == S1(FK1a, Xor(FK2a, B[1]), T)
        FK2  == S0(FK2a, Xor(FK1, B[2]), T)
    IN  LongOfBytes(<<S0(A[1], Xor(FK1, B[3]), T), FK1, FK2,
                      S1(A[4], Xor(FK2, B[4]), T)>>)

-----------------------------------------------------------------------------
(* SetKey *)

Rounds == 8

NumSubkeys == 16

\* SetKeyEntry without `D.All = 0`: D holds a stale HalfWord
SetKeyEntry_StaleD(KP, Kold) ==
    [A |-> LongOfBytes(SubSeq(KP, 1, 4)),
     B |-> LongOfBytes(SubSeq(KP, 5, 8)),
     D |-> K1415,
     K |-> Kold,
     hw |-> {LongOfBytes(SubSeq(KP, 1, 4)), LongOfBytes(SubSeq(KP, 5, 8)),
             K1415}]

\* SetKey before its loop: A, B, D are the unions' All members, K the
\* array K the loop is going to store to, hw the HalfWord values produced
SetKeyEntry(KP, Kold) ==
    [A |-> LongOfBytes(SubSeq(KP, 1, 4)),
     B |-> LongOfBytes(SubSeq(KP, 5, 8)),
     D |-> Zeros(host.sizeofLong),
     K |-> Kold,
     hw |-> {LongOfBytes(SubSeq(KP, 1, 4)), LongOfBytes(SubSeq(KP, 5, 8)),
             Zeros(host.sizeofLong)}]

\* SetKeyEmit with `*Out++ ^= Q.All` written for the second `*Out++ = Q.All`
SetKeyEmit_XorsOdd(i, Bb, Out) ==
    [Out EXCEPT ![2 * i - 2] = IntOfBytes(<<Bb[1], Bb[2]>>),
                ![2 * i - 1] = XorW(@, IntOfBytes(<<Bb[3], Bb[4]>>))]

\* Q.Byte[0] = B.Byte[0]; Q.Byte[1] = B.Byte[1]; *Out++ = Q.All; and the
\* same for B.Byte[2], B.Byte[3], in iteration i, Bb being B.Byte[0..3]
SetKeyEmit(i, Bb, Out) ==
    [Out EXCEPT ![2 * i - 2] = IntOfBytes(<<Bb[1], Bb[2]>>),
                ![2 * i - 1] = IntOfBytes(<<Bb[3], Bb[4]>>)]

\* SetKeyAdvance with `D = B` written for `D = A`
SetKeyAdvance_DFromB(i, st, NewB) ==
    [A |-> st.B, B |-> NewB, D |-> st.B,
     K |-> SetKeyEmit(i, BytesOfLong(NewB), st.K),
     hw |-> st.hw \cup {NewB}]

\* D = A; A = B; B = NewB; and the two stores to K, in iteration i
SetKeyAdvance(i, st, NewB) ==
    [A |-> st.B, B |-> NewB, D |-> st.A,
     K |-> SetKeyEmit(i, BytesOfLong(NewB), st.K),
     hw |-> st.hw \cup {NewB}]

\* iteration i of the loop of SetKey
SetKeyIter(i, st, T) ==
    SetKeyAdvance(i, st, FK(st.A, XorW(st.B, st.D), T))

\* the loop of SetKey from iteration i on
RECURSIVE SetKeyLoop(_, _, _)
SetKeyLoop(i, st, T) ==
    IF i <= Rounds THEN SetKeyLoop(i + 1, SetKeyIter(i, st, T), T) ELSE st

\* the globals SetKey leaves, given the four words it makes after the loop
SetKeyResult(st, k89, k1011, k1213, k1415) ==
    [K |-> st.K, K89 |-> k89, K1011 |-> k1011, K1213 |-> k1213,
     K1415 |-> k1415, hw |-> st.hw \cup {k89, k1011, k1213, k1415}]

\* SetKey after its loop: K89 = MakeH2(K + 8); ... K1415 = MakeH2(K + 14)
SetKeyExit(st) ==
    SetKeyResult(st, MakeH2(<<st.K[8], st.K[9]>>),
                     MakeH2(<<st.K[10], st.K[11]>>),
                     MakeH2(<<st.K[12], st.K[13]>>),
                     MakeH2(<<st.K[14], st.K[15]>>))

\* SetKey(KP) run on the array Kold with the Rot2 table T: the globals it
\* leaves, and hw, the HalfWord values it produced on the way
SetKeyRun(KP, Kold, T) == SetKeyExit(SetKeyLoop(1, SetKeyEntry(KP, Kold), T))

-----------------------------------------------------------------------------
(* Encrypt and Decrypt *)

\* Encrypt up to its loop
EncryptEntry(Plain, k89, k1011) ==
    LET L0 == MakeH1(SubSeq(Plain, 1, 4))
        R0 == MakeH1(SubSeq(Plain, 5, 8))
        L1 == XorW(L0, k89)
        R1 == XorW(R0, k1011)
        R2 == XorW(R1, L1)
    IN  [L |-> L1, R |-> R2, hw |-> {L0, R0, L1, R1, R2}]

\* one round of Encrypt with the subkey Kr
EncryptRound(L, R, Kr, T) ==
    LET fr   == f(R, Kr, T)
        NewR == XorW(L, fr)
    IN  [L |-> R, R |-> NewR, hw |-> {fr, NewR}]

\* EncryptExit without `L ^= R`
EncryptExit_NoMix(L, R, k1213, k1415) ==
    LET R3 == XorW(R, k1213)
        L4 == XorW(L, k1415)
    IN  [out |-> DissH1(R3) \o DissH1(L4), hw |-> {R3, L4}]

\* Encrypt after its loop
EncryptExit(L, R, k1213, k1415) ==
    LET L3 == XorW(L, R)
        R3 == XorW(R, k1213)
        L4 == XorW(L3, k1415)
    IN  [out |-> DissH1(R3) \o DissH1(L4), hw |-> {L3, R3, L4}]

\* the round loop of Encrypt from round r on; ks lists the subkey indices
\* passed to f so far
RECURSIVE EncryptRounds(_, _, _, _, _, _, _)
EncryptRounds(r, L, R, Karr, T, hw, ks) ==
    IF r < Rounds
    THEN LET rd == EncryptRound(L, R, Karr[r], T)
         IN  EncryptRounds(r + 1, rd.L, rd.R, Karr, T, hw \cup rd.hw,
                           Append(ks, r))
    ELSE [L |-> L, R |-> R, hw |-> hw, ks |-> ks]

EncryptRun(Plain, Karr, k89, k1011, k1213, k1415, T) ==
    LET e  == EncryptEntry(Plain, k89, k1011)
        rr == EncryptRounds(0, e.L, e.R, Karr, T, {}, <<>>)
        x  == EncryptExit(rr.L, rr.R, k1213, k1415)
    IN  [out |-> x.out, hw |-> e.hw \cup rr.hw \cup x.hw, ks |-> rr.ks]

\* Decrypt up to its loop
DecryptEntry(Cipher, k1213, k1415) ==
    LET R0 == MakeH1(SubSeq(Cipher, 1, 4))
        L0 == MakeH1(SubSeq(Cipher, 5, 8))
        R1 == XorW(R0, k1213)
        L1 == XorW(L0, k1415)
        L2 == XorW(L1, R1)
    IN  [L |-> L2, R |-> R1, hw |-> {R0, L0, R1, L1, L2}]

\* one round of Decrypt with the subkey Kr
DecryptRound(L, R, Kr, T) ==
    LET fr   == f(L, Kr, T)
        NewL == XorW(R, fr)
    IN  [L |-> NewL, R |-> L, hw |-> {fr, NewL}]

\* Decrypt after its loop
DecryptExit(L, R, k89, k1011) ==
    LET R3 == XorW(R, L)
        R4 == XorW(R3, k1011)
        L4 == XorW(L, k89)
    IN  [out |-> DissH1(L4) \o DissH1(R4), hw |-> {R3, R4, L4}]

\* DecryptRounds taking the subkeys in the order of Encrypt
RECURSIVE DecryptRounds_Ascending(_, _, _, _, _, _, _)
DecryptRounds_Ascending(r, L, R, Karr, T, hw, ks) ==
    IF r >= 0
    THEN LET rd == DecryptRound(L, R, Karr[Rounds - 1 - r], T)
         IN  DecryptRounds_Ascending(r - 1, rd.L, rd.R, Karr, T,
                                     hw \cup rd.hw, Append(ks, Rounds - 1 - r))
    ELSE [L |-> L, R |-> R, hw |-> hw, ks |-> ks]

\* the round loop of Decrypt from round r down
RECURSIVE DecryptRounds(_, _, _, _, _, _, _)
DecryptRounds(r, L, R, Karr, T, hw, ks) ==
    IF r >= 0
    THEN LET rd == DecryptRound(L, R, Karr[r], T)
         IN  DecryptRounds(r - 1, rd.L, rd.R, Karr, T, hw \cup rd.hw,
                           Append(ks, r))
    ELSE [L |-> L, R |-> R, hw |-> hw, ks |-> ks]

DecryptRun(Cipher, Karr, k89, k1011, k1213, k1415, T) ==
    LET e  == DecryptEntry(Cipher, k1213, k1415)
        rr == DecryptRounds(Rounds - 1, e.L, e.R, Karr, T, {}, <<>>)
        x  == DecryptExit(rr.L, rr.R, k89, k1011)
    IN  [out |-> x.out, hw |-> e.hw \cup rr.hw \cup x.hw, ks |-> rr.ks]

-----------------------------------------------------------------------------
(* The sequential program: any sequence of SetKey, Encrypt, Decrypt calls. *)
(* An action binds the call's run with \E over a one-element set, so that   *)
(* it is evaluated once.                                                    *)

MaxCalls == 3

\* key[] of main, and two more keys
Keys ==
    { <<1, 35, 69, 103, 137, 171, 205, 239>>,
      <<255, 0, 128, 127, 16, 32, 64, 254>> }

\* plain[] of main, and one more block
Blocks ==
    { <<0, 0, 0, 0, 0, 0, 0, 0>>,
      <<1, 2, 3, 4, 250, 251, 252, 253>> }

\* the blocks earlier Encrypt and Decrypt calls returned
Returned ==
    {hist[i].out : i \in {j \in 1 .. Len(hist) : hist[j].op # "SetKey"}}

Init ==
    /\ host \in Hosts
    /\ K = [i \in 0 .. (NumSubkeys - 1) |-> Zeros(host.sizeofInt)]
    /\ K89 = Zeros(host.sizeofLong)
    /\ K1011 = Zeros(host.sizeofLong)
    /\ K1213 = Zeros(host.sizeofLong)
    /\ K1415 = Zeros(host.sizeofLong)
    /\ First = 1
    /\ RetVal = [x \in 1 .. TableSize |-> 0]
    /\ hist = <<>>
    /\ pc = <<>>
    /\ loc = <<>>

SetKey(KP) ==
    /\ Len(hist) < MaxCalls
    /\ \E T \in {Rot2Table(First, RetVal)} :
       \E run \in {SetKeyRun(KP, K, T)} :
           /\ K' = run.K
           /\ K89' = run.K89
           /\ K1011' = run.K1011
           /\ K1213' = run.K1213
           /\ K1415' = run.K1415
           /\ First' = 0
           /\ RetVal' = T
           /\ hist' = Append(hist, [op |-> "SetKey", in |-> KP,
                                    out |-> <<run.K, run.K89, run.K1011,
                                              run.K1213, run.K1415>>,
                                    hw |-> run.hw, ks |-> <<>>])
    /\ UNCHANGED <<host, pc, loc>>

\* Encrypt with `K89 ^= L` written for `L ^= K89`
Encrypt_StoresK89(Plain) ==
    /\ Len(hist) < MaxCalls
    /\ \E T \in {Rot2Table(First, RetVal)} :
       \E run \in {EncryptRun(Plain, K, K89, K1011, K1213, K1415, T)} :
           /\ First' = 0
           /\ RetVal' = T
           /\ K89' = XorW(K89, MakeH1(SubSeq(Plain, 1, 4)))
           /\ hist' = Append(hist, [op |-> "Encrypt", in |-> Plain,
                                    out |-> run.out, hw |-> run.hw,
                                    ks |-> run.ks])
    /\ UNCHANGED <<host, K, K1011, K1213, K1415, pc, loc>>

Encrypt(Plain) ==
    /\ Len(hist) < MaxCalls
    /\ \E T \in {Rot2Table(First, RetVal)} :
       \E run \in {EncryptRun(Plain, K, K89, K1011, K1213, K1415, T)} :
           /\ First' = 0
           /\ RetVal' = T
           /\ hist' = Append(hist, [op |-> "Encrypt", in |-> Plain,
                                    out |-> run.out, hw |-> run.hw,
                                    ks |-> run.ks])
    /\ UNCHANGED <<host, K, K89, K1011, K1213, K1415, pc, loc>>

Decrypt(Cipher) ==
    /\ Len(hist) < MaxCalls
    /\ \E T \in {Rot2Table(First, RetVal)} :
       \E run \in {DecryptRun(Cipher, K, K89, K1011, K1213, K1415, T)} :
           /\ First' = 0
           /\ RetVal' = T
           /\ hist' = Append(hist, [op |-> "Decrypt", in |-> Cipher,
                                    out |-> run.out, hw |-> run.hw,
                                    ks |-> run.ks])
    /\ UNCHANGED <<host, K, K89, K1011, K1213, K1415, pc, loc>>

Next ==
    \/ \E KP \in Keys : SetKey(KP)
    \/ \E Plain \in Blocks \cup Returned : Encrypt(Plain)
    \/ \E Cipher \in Blocks \cup Returned : Decrypt(Cipher)

Spec == Init /\ [][Next]_vars

-----------------------------------------------------------------------------
(* The conversions and Rot2 called on their own: hist holds the last call *)

ByteSamples == {0, 18, 255}

LowSamples ==
    { <<0, 0, 0, 0>>, <<1, 2, 3, 4>>, <<255, 0, 0, 128>>,
      <<222, 173, 190, 239>> }

HighSamples == { <<0, 0, 0, 0>>, <<154, 188, 222, 240>> }

\* values of type unsigned long (HalfWord) and unsigned int (QuarterWord)
HalfWordSamples ==
    {SubSeq(lo \o hi, 1, host.sizeofLong) : lo \in LowSamples, hi \in HighSamples}

QuarterWordSamples ==
    {SubSeq(lo \o hi, 1, host.sizeofInt) :
        lo \in {SubSeq(l, 1, 2) : l \in LowSamples},
        hi \in {SubSeq(h, 1, 2) : h \in HighSamples}}

CallRot2(X) ==
    /\ LET T == Rot2Table(First, RetVal)
       IN  /\ First' = 0
           /\ RetVal' = T
           /\ hist' = <<[op |-> "Rot2", in |-> X, out |-> Rot2(X, T)]>>
    /\ UNCHANGED <<host, K, K89, K1011, K1213, K1415, pc, loc>>

CallMakeH1(B) ==
    /\ hist' = <<[op |-> "MakeH1", in |-> B, out |-> MakeH1(B)]>>
    /\ UNCHANGED <<host, K, K89, K1011, K1213, K1415, First, RetVal, pc, loc>>

CallDissH1(H) ==
    /\ hist' = <<[op |-> "DissH1", in |-> H, out |-> DissH1(H)]>>
    /\ UNCHANGED <<host, K, K89, K1011, K1213, K1415, First, RetVal, pc, loc>>

CallDissQ1(Q) ==
    /\ hist' = <<[op |-> "DissQ1", in |-> Q, out |-> DissQ1(Q)]>>
    /\ UNCHANGED <<host, K, K89, K1011, K1213, K1415, First, RetVal, pc, loc>>

NextPrim ==
    \/ \E X \in ByteType : CallRot2(X)
    \/ \E B \in [1 .. 4 -> ByteSamples] : CallMakeH1(B)
    \/ \E H \in HalfWordSamples : CallDissH1(H)
    \/ \E Q \in QuarterWordSamples : CallDissQ1(Q)

SpecPrim == Init /\ [][NextPrim]_vars

(* f, S0 and S1 called on their own; hist holds the last call *)

CallS0(X1, X2) ==
    /\ \E T \in {Rot2Table(First, RetVal)} :
          /\ First' = 0
          /\ RetVal' = T
          /\ hist' = <<[op |-> "S0", in |-> <<X1, X2>>, out |-> S0(X1, X2, T)]>>
    /\ UNCHANGED <<host, K, K89, K1011, K1213, K1415, pc, loc>>

CallS1(X1, X2) ==
    /\ \E T \in {Rot2Table(First, RetVal)} :
          /\ First' = 0
          /\ RetVal' = T
          /\ hist' = <<[op |-> "S1", in |-> <<X1, X2>>, out |-> S1(X1, X2, T)]>>
    /\ UNCHANGED <<host, K, K89, K1011, K1213, K1415, pc, loc>>

CallF(AA, BB) ==
    /\ \E T \in {Rot2Table(First, RetVal)} :
          /\ First' = 0
          /\ RetVal' = T
          /\ hist' = <<[op |-> "f", in |-> <<AA, BB>>, out |-> f(AA, BB, T),
                        first |-> First]>>
    /\ UNCHANGED <<host, K, K89, K1011, K1213, K1415, pc, loc>>

NextRound ==
    \/ \E X1, X2 \in ByteSamples : CallS0(X1, X2)
    \/ \E X1, X2 \in ByteSamples : CallS1(X1, X2)
    \/ \E AA \in HalfWordSamples : \E BB \in QuarterWordSamples : CallF(AA, BB)

SpecRound == Init /\ [][NextRound]_vars

\* the last call
Last == hist[Len(hist)]

\* the key of the most recent SetKey before call i, <<>> when there is none
RECURSIVE KeyBefore(_)
KeyBefore(i) ==
    IF i <= 1 THEN <<>>
    ELSE IF hist[i - 1].op = "SetKey" THEN hist[i - 1].in
    ELSE KeyBefore(i - 1)

-----------------------------------------------------------------------------
(* Calls running in several threads.                                       *)
(*                                                                         *)
(* The code holds no lock and no atomic: a thread's loads and stores of    *)
(* the globals and of Rot2's statics interleave with the other threads'.   *)
(* pc[t] is "idle" outside a call; loc[t] holds the locals of t's call.    *)
(* A SetKey call takes one step per loop iteration and one per store after *)
(* the loop; an Encrypt or Decrypt call one step up to its loop, one per   *)
(* round and one after the loop.                                           *)
(*                                                                         *)
(* Rot2's first-call block is a data race when two threads run it: the     *)
(* stores of the thread that runs it (the 256 table entries, First) reach  *)
(* the other threads in either order.  The thread itself sees its own      *)
(* stores at once (built); PublishRetVal and PublishFirst make them        *)
(* visible to the others, and a call returns with both done.               *)

Setter == "s"

MaxSetKeys == 1

MaxReaderCalls == 2

\* key[] of main
ThreadKeys == { <<1, 35, 69, 103, 137, 171, 205, 239>> }

\* a block of eight different bytes
ThreadBlocks == { <<1, 2, 3, 4, 250, 251, 252, 253>> }

\* the threads whose call is running
Running == {t \in DOMAIN pc : pc[t] # "idle"}

\* SetKey calls begun so far: those returned and the one running
SetKeyCalls ==
    Cardinality({i \in 1 .. Len(hist) : hist[i].op = "SetKey"})
        + Cardinality(Running \cap {Setter})

\* Encrypt and Decrypt calls begun so far
ReaderCalls ==
    Cardinality({i \in 1 .. Len(hist) : hist[i].op # "SetKey"})
        + Cardinality(Running \ {Setter})

\* the key of the last SetKey that returned, <<>> when there is none
CurrentKey == KeyBefore(Len(hist) + 1)

\* RetVal as thread t's Rot2 call finds it after the `if (First)` block
Rot2View(built, first, retVal) ==
    IF built \/ first # 0 THEN Rot2Built ELSE retVal

\* whether thread t's Rot2 call runs the first-call block
Rot2Builds(built, first) == ~built /\ first # 0

SetKeyBegin(KP) ==
    /\ Setter \in DOMAIN pc
    /\ pc[Setter] = "idle"
    /\ SetKeyCalls < MaxSetKeys
    /\ pc' = [pc EXCEPT ![Setter] = "loop"]
    /\ loc' = [loc EXCEPT ![Setter] = [KP |-> KP, i |-> 1, st |-> SetKeyEntry(KP, K)]]
    /\ UNCHANGED <<host, K, K89, K1011, K1213, K1415, First, RetVal, hist>>

SetKeyStep ==
    /\ Setter \in DOMAIN pc
    /\ pc[Setter] = "loop"
    /\ \E T \in {Rot2Table(First, RetVal)} :
       \E it \in {SetKeyIter(loc[Setter].i, [loc[Setter].st EXCEPT !.K = K], T)} :
           /\ K' = it.K
           /\ First' = 0
           /\ RetVal' = T
           /\ loc' = [loc EXCEPT ![Setter].st = it, ![Setter].i = @ + 1]
    /\ pc' = [pc EXCEPT ![Setter] = IF loc[Setter].i = Rounds THEN "K89" ELSE "loop"]
    /\ UNCHANGED <<host, K89, K1011, K1213, K1415, hist>>

SetKeyStoreK89 ==
    /\ Setter \in DOMAIN pc
    /\ pc[Setter] = "K89"
    /\ K89' = MakeH2(<<K[8], K[9]>>)
    /\ pc' = [pc EXCEPT ![Setter] = "K1011"]
    /\ UNCHANGED <<host, K, K1011, K1213, K1415, First, RetVal, hist, loc>>

SetKeyStoreK1011 ==
    /\ Setter \in DOMAIN pc
    /\ pc[Setter] = "K1011"
    /\ K1011' = MakeH2(<<K[10], K[11]>>)
    /\ pc' = [pc EXCEPT ![Setter] = "K1213"]
    /\ UNCHANGED <<host, K, K89, K1213, K1415, First, RetVal, hist, loc>>

SetKeyStoreK1213 ==
    /\ Setter \in DOMAIN pc
    /\ pc[Setter] = "K1213"
    /\ K1213' = MakeH2(<<K[12], K[13]>>)
    /\ pc' = [pc EXCEPT ![Setter] = "K1415"]
    /\ UNCHANGED <<host, K, K89, K1011, K1415, First, RetVal, hist, loc>>

SetKeyStoreK1415 ==
    /\ Setter \in DOMAIN pc
    /\ pc[Setter] = "K1415"
    /\ K1415' = MakeH2(<<K[14], K[15]>>)
    /\ pc' = [pc EXCEPT ![Setter] = "idle"]
    /\ hist' = Append(hist, [op |-> "SetKey", in |-> loc[Setter].KP,
                             out |-> <<K, K89, K1011, K1213, K1415'>>])
    /\ UNCHANGED <<host, K, K89, K1011, K1213, First, RetVal, loc>>

\* SetKey run while no other call is running
SetKeyAlone(KP) ==
    /\ Running = {}
    /\ SetKeyCalls < MaxSetKeys
    /\ SetKey(KP)

\* Encrypt with `K89 ^= L` written for `L ^= K89`
EncryptBegin_StoresK89(t, Plain) ==
    /\ pc[t] = "idle"
    /\ ReaderCalls < MaxReaderCalls
    /\ \E e \in {EncryptEntry(Plain, K89, K1011)} :
          loc' = [loc EXCEPT ![t] =
                    [op |-> "Encrypt", in |-> Plain, r |-> 0, L |-> e.L, R |-> e.R,
                     built |-> FALSE, pending |-> {}, key |-> CurrentKey,
                     with |-> Running, ks |-> <<>>,
                     alone |-> EncryptRun(Plain, K, K89, K1011, K1213, K1415,
                                          Rot2Table(First, RetVal)).out]]
    /\ K89' = XorW(K89, MakeH1(SubSeq(Plain, 1, 4)))
    /\ pc' = [pc EXCEPT ![t] = "rounds"]
    /\ UNCHANGED <<host, K, K1011, K1213, K1415, First, RetVal, hist>>

EncryptBegin(t, Plain) ==
    /\ pc[t] = "idle"
    /\ ReaderCalls < MaxReaderCalls
    /\ \E e \in {EncryptEntry(Plain, K89, K1011)} :
          loc' = [loc EXCEPT ![t] =
                    [op |-> "Encrypt", in |-> Plain, r |-> 0, L |-> e.L, R |-> e.R,
                     built |-> FALSE, pending |-> {}, key |-> CurrentKey,
                     with |-> Running, ks |-> <<>>,
                     alone |-> EncryptRun(Plain, K, K89, K1011, K1213, K1415,
                                          Rot2Table(First, RetVal)).out]]
    /\ pc' = [pc EXCEPT ![t] = "rounds"]
    /\ UNCHANGED <<host, K, K89, K1011, K1213, K1415, First, RetVal, hist>>

\* EncryptStep with `r += 2` written for `++r`
EncryptStep_SkipsRound(t) ==
    /\ pc[t] = "rounds"
    /\ loc[t].op = "Encrypt"
    /\ loc[t].r < Rounds
    /\ \E rd \in {EncryptRound(loc[t].L, loc[t].R, K[loc[t].r],
                               Rot2View(loc[t].built, First, RetVal))} :
          loc' = [loc EXCEPT ![t].L = rd.L, ![t].R = rd.R, ![t].r = @ + 2,
                             ![t].ks = Append(@, loc[t].r),
                             ![t].built = @ \/ Rot2Builds(loc[t].built, First),
                             ![t].pending =
                                 IF Rot2Builds(loc[t].built, First)
                                 THEN {"RetVal", "First"} ELSE @]
    /\ UNCHANGED <<host, K, K89, K1011, K1213, K1415, First, RetVal, hist, pc>>

EncryptStep(t) ==
    /\ pc[t] = "rounds"
    /\ loc[t].op = "Encrypt"
    /\ loc[t].r < Rounds
    /\ \E rd \in {EncryptRound(loc[t].L, loc[t].R, K[loc[t].r],
                               Rot2View(loc[t].built, First, RetVal))} :
          loc' = [loc EXCEPT ![t].L = rd.L, ![t].R = rd.R, ![t].r = @ + 1,
                             ![t].ks = Append(@, loc[t].r),
                             ![t].built = @ \/ Rot2Builds(loc[t].built, First),
                             ![t].pending =
                                 IF Rot2Builds(loc[t].built, First)
                                 THEN {"RetVal", "First"} ELSE @]
    /\ UNCHANGED <<host, K, K89, K1011, K1213, K1415, First, RetVal, hist, pc>>

EncryptEnd(t) ==
    /\ pc[t] = "rounds"
    /\ loc[t].op = "Encrypt"
    /\ loc[t].r = Rounds
    /\ loc[t].pending = {}
    /\ hist' = Append(hist, [op |-> "Encrypt", in |-> loc[t].in,
                             out |-> EncryptExit(loc[t].L, loc[t].R, K1213, K1415).out,
                             key |-> loc[t].key, with |-> loc[t].with,
                             ks |-> loc[t].ks, alone |-> loc[t].alone])
    /\ pc' = [pc EXCEPT ![t] = "idle"]
    /\ UNCHANGED <<host, K, K89, K1011, K1213, K1415, First, RetVal, loc>>

DecryptBegin(t, Cipher) ==
    /\ pc[t] = "idle"
    /\ ReaderCalls < MaxReaderCalls
    /\ \E e \in {DecryptEntry(Cipher, K1213, K1415)} :
          loc' = [loc EXCEPT ![t] =
                    [op |-> "Decrypt", in |-> Cipher, r |-> Rounds - 1,
                     L |-> e.L, R |-> e.R,
                     built |-> FALSE, pending |-> {}, key |-> CurrentKey,
                     with |-> Running, ks |-> <<>>,
                     alone |-> DecryptRun(Cipher, K, K89, K1011, K1213, K1415,
                                          Rot2Table(First, RetVal)).out]]
    /\ pc' = [pc EXCEPT ![t] = "rounds"]
    /\ UNCHANGED <<host, K, K89, K1011, K1213, K1415, First, RetVal, hist>>

DecryptStep(t) ==
    /\ pc[t] = "rounds"
    /\ loc[t].op = "Decrypt"
    /\ loc[t].r >= 0
    /\ \E rd \in {DecryptRound(loc[t].L, loc[t].R, K[loc[t].r],
                               Rot2View(loc[t].built, First, RetVal))} :
          loc' = [loc EXCEPT ![t].L = rd.L, ![t].R = rd.R, ![t].r = @ - 1,
                             ![t].ks = Append(@, loc[t].r),
                             ![t].built = @ \/ Rot2Builds(loc[t].built, First),
                             ![t].pending =
                                 IF Rot2Builds(loc[t].built, First)
                                 THEN {"RetVal", "First"} ELSE @]
    /\ UNCHANGED <<host, K, K89, K1011, K1213, K1415, First, RetVal, hist, pc>>

DecryptEnd(t) ==
    /\ pc[t] = "rounds"
    /\ loc[t].op = "Decrypt"
    /\ loc[t].r < 0
    /\ loc[t].pending = {}
    /\ hist' = Append(hist, [op |-> "Decrypt", in |-> loc[t].in,
                             out |-> DecryptExit(loc[t].L, loc[t].R, K89, K1011).out,
                             key |-> loc[t].key, with |-> loc[t].with,
                             ks |-> loc[t].ks, alone |-> loc[t].alone])
    /\ pc' = [pc EXCEPT ![t] = "idle"]
    /\ UNCHANGED <<host, K, K89, K1011, K1213, K1415, First, RetVal, loc>>

\* the table stores of t's first-call block reach the other threads
PublishRetVal(t) ==
    /\ pc[t] = "rounds"
    /\ "RetVal" \in loc[t].pending
    /\ RetVal' = Rot2Built
    /\ loc' = [loc EXCEPT ![t].pending = @ \ {"RetVal"}]
    /\ UNCHANGED <<host, K, K89, K1011, K1213, K1415, First, hist, pc>>

\* the store `First = 0` of t's first-call block reaches the other threads
PublishFirst(t) ==
    /\ pc[t] = "rounds"
    /\ "First" \in loc[t].pending
    /\ First' = 0
    /\ loc' = [loc EXCEPT ![t].pending = @ \ {"First"}]
    /\ UNCHANGED <<host, K, K89, K1011, K1213, K1415, RetVal, hist, pc>>

\* the globals and statics at program start
InitMemory ==
    /\ host \in Hosts
    /\ K = [i \in 0 .. (NumSubkeys - 1) |-> Zeros(host.sizeofInt)]
    /\ K89 = Zeros(host.sizeofLong)
    /\ K1011 = Zeros(host.sizeofLong)
    /\ K1213 = Zeros(host.sizeofLong)
    /\ K1415 = Zeros(host.sizeofLong)
    /\ First = 1
    /\ RetVal = [x \in 1 .. TableSize |-> 0]
    /\ hist = <<>>

(* One thread calling SetKey while another calls Encrypt and Decrypt *)

InitSetKeyRace ==
    /\ InitMemory
    /\ pc = [t \in {Setter, "r1"} |-> "idle"]
    /\ loc = [t \in {Setter, "r1"} |-> <<>>]

NextSetKeyRace ==
    \/ \E KP \in ThreadKeys : SetKeyBegin(KP)
    \/ SetKeyStep
    \/ SetKeyStoreK89
    \/ SetKeyStoreK1011
    \/ SetKeyStoreK1213
    \/ SetKeyStoreK1415
    \/ \E Plain \in ThreadBlocks : EncryptBegin("r1", Plain)
    \/ EncryptStep("r1")
    \/ EncryptEnd("r1")
    \/ \E Cipher \in ThreadBlocks : DecryptBegin("r1", Cipher)
    \/ DecryptStep("r1")
    \/ DecryptEnd("r1")
    \/ PublishRetVal("r1")
    \/ PublishFirst("r1")

SpecSetKeyRace == InitSetKeyRace /\ [][NextSetKeyRace]_vars

(* Two threads calling Encrypt and Decrypt; SetKey only between calls *)

Readers == {"r1", "r2"}

InitReaders ==
    /\ InitMemory
    /\ pc = [t \in Readers |-> "idle"]
    /\ loc = [t \in Readers |-> <<>>]

NextReaders ==
    \/ \E KP \in ThreadKeys : SetKeyAlone(KP)
    \/ \E t \in Readers : \E Plain \in ThreadBlocks : EncryptBegin(t, Plain)
    \/ \E t \in Readers : EncryptStep(t)
    \/ \E t \in Readers : EncryptEnd(t)
    \/ \E t \in Readers : \E Cipher \in ThreadBlocks : DecryptBegin(t, Cipher)
    \/ \E t \in Readers : DecryptStep(t)
    \/ \E t \in Readers : DecryptEnd(t)
    \/ \E t \in Readers : PublishRetVal(t)
    \/ \E t \in Readers : PublishFirst(t)

SpecReaders == InitReaders /\ [][NextReaders]_vars

(* One thread calling SetKey, Encrypt and Decrypt, a call taking one step *)
(* per round.  A running program goes on running: its next step is taken.  *)

InitOneReader ==
    /\ InitMemory
    /\ pc = [t \in {"r1"} |-> "idle"]
    /\ loc = [t \in {"r1"} |-> <<>>]

MaxRoundCalls == 2

\* calls begun so far: those returned and the one running
CallsBegun == Len(hist) + Cardinality(Running)

NextOneReader ==
    \/ \E KP \in ThreadKeys : CallsBegun < MaxRoundCalls /\ SetKeyAlone(KP)
    \/ \E Plain \in ThreadBlocks : CallsBegun < MaxRoundCalls /\ EncryptBegin("r1", Plain)
    \/ EncryptStep("r1")
    \/ EncryptEnd("r1")
    \/ \E Cipher \in ThreadBlocks : CallsBegun < MaxRoundCalls /\ DecryptBegin("r1", Cipher)
    \/ DecryptStep("r1")
    \/ DecryptEnd("r1")
    \/ PublishRetVal("r1")
    \/ PublishFirst("r1")

\* the steps of a call that has begun
CallStep(t) ==
    \/ EncryptStep(t)
    \/ EncryptEnd(t)
    \/ DecryptStep(t)
    \/ DecryptEnd(t)
    \/ PublishRetVal(t)
    \/ PublishFirst(t)

SpecOneReader ==
    InitOneReader /\ [][NextOneReader]_vars /\ WF_vars(CallStep("r1"))

-----------------------------------------------------------------------------
(* Calls on arrays of any length.                                          *)
(*                                                                         *)
(* SetKey, Encrypt and Decrypt take a ByteType * and no length: they read  *)
(* the eight bytes at KP[0..7], Plain[0..7] or Cipher[0..7] whatever array *)
(* the caller passes, and they return void.  When the array is shorter,    *)
(* the reads past its end are undefined behaviour: they yield whatever     *)
(* bytes lie there, or the program faults.                                 *)

BlockLen == 8

\* arrays a caller can pass: one byte short, as main's, one byte long
KeyArrays ==
    { <<1, 35, 69, 103, 137, 171, 205>>,
      <<1, 35, 69, 103, 137, 171, 205, 239>>,
      <<1, 35, 69, 103, 137, 171, 205, 239, 90>> }

BlockArrays ==
    { <<1, 2, 3, 4, 250, 251, 252>>,
      <<1, 2, 3, 4, 250, 251, 252, 253>>,
      <<1, 2, 3, 4, 250, 251, 252, 253, 90>> }

\* what the bytes after a short array can hold
PastBytes == { <<0>>, <<253>> }

\* the bytes p[0..7] read through the pointer p to the array buf, past being
\* the bytes that lie after the array
Read8(buf, past) ==
    [i \in 1 .. BlockLen |-> IF i <= Len(buf) THEN buf[i] ELSE past[i - Len(buf)]]

\* the choices for the bytes after buf that a call reads: none is read when
\* buf has eight bytes or more
PastOf(buf) == IF Len(buf) < BlockLen THEN PastBytes ELSE { <<>> }

InitArrays ==
    /\ InitMemory
    /\ pc = "running"
    /\ loc = <<>>

SetKeyArray(buf, past) ==
    /\ pc = "running"
    /\ Len(hist) < MaxCalls
    /\ \E T \in {Rot2Table(First, RetVal)} :
       \E run \in {SetKeyRun(Read8(buf, past), K, T)} :
           /\ K' = run.K
           /\ K89' = run.K89
           /\ K1011' = run.K1011
           /\ K1213' = run.K1213
           /\ K1415' = run.K1415
           /\ First' = 0
           /\ RetVal' = T
           /\ hist' = Append(hist, [op |-> "SetKey", arg |-> buf,
                                    in |-> Read8(buf, past),
                                    before |-> globals, status |-> "returned",
                                    out |-> <<run.K, run.K89, run.K1011,
                                              run.K1213, run.K1415>>])
    /\ UNCHANGED <<host, pc, loc>>

EncryptArray(buf, past) ==
    /\ pc = "running"
    /\ Len(hist) < MaxCalls
    /\ \E T \in {Rot2Table(First, RetVal)} :
       \E run \in {EncryptRun(Read8(buf, past), K, K89, K1011, K1213, K1415, T)} :
           /\ First' = 0
           /\ RetVal' = T
           /\ hist' = Append(hist, [op |-> "Encrypt", arg |-> buf,
                                    in |-> Read8(buf, past),
                                    before |-> globals, status |-> "returned",
                                    out |-> run.out])
    /\ UNCHANGED <<host, K, K89, K1011, K1213, K1415, pc, loc>>

DecryptArray(buf, past) ==
    /\ pc = "running"
    /\ Len(hist) < MaxCalls
    /\ \E T \in {Rot2Table(First, RetVal)} :
       \E run \in {DecryptRun(Read8(buf, past), K, K89, K1011, K1213, K1415, T)} :
           /\ First' = 0
           /\ RetVal' = T
           /\ hist' = Append(hist, [op |-> "Decrypt", arg |-> buf,
                                    in |-> Read8(buf, past),
                                    before |-> globals, status |-> "returned",
                                    out |-> run.out])
    /\ UNCHANGED <<host, K, K89, K1011, K1213, K1415, pc, loc>>

\* a call on a short array whose read past the end of the array faults
FaultPastEnd(op, buf) ==
    /\ pc = "running"
    /\ Len(hist) < MaxCalls
    /\ Len(buf) < BlockLen
    /\ pc' = "faulted"
    /\ hist' = Append(hist, [op |-> op, arg |-> buf, in |-> buf,
                             before |-> globals, status |-> "faulted",
                             out |-> <<>>])
    /\ UNCHANGED <<host, K, K89, K1011, K1213, K1415, First, RetVal, loc>>

NextArrays ==
    \/ \E buf \in KeyArrays : \E past \in PastOf(buf) : SetKeyArray(buf, past)
    \/ \E buf \in BlockArrays : \E past \in PastOf(buf) : EncryptArray(buf, past)
    \/ \E buf \in BlockArrays : \E past \in PastOf(buf) : DecryptArray(buf, past)
    \/ \E buf \in KeyArrays : FaultPastEnd("SetKey", buf)
    \/ \E op \in {"Encrypt", "Decrypt"} : \E buf \in BlockArrays : FaultPastEnd(op, buf)

SpecArrays == InitArrays /\ [][NextArrays]_vars

-----------------------------------------------------------------------------
(* The scalar packing of aes_pbt_harness.c.                                *)
(*                                                                         *)
(* A uint64_t value is the sequence of its eight base-256 digits, least    *)
(* significant first: digit k holds bits 8k-1 .. 8k-8.  The harness shifts *)
(* by multiples of 8 only.  BYTE is taken to be unsigned char.             *)

Word64Digits == 8

\* v >> n on uint64_t, n a multiple of 8
ShiftRight64(v, n) ==
    [k \in 1 .. Word64Digits |->
        IF k + (n \div 8) <= Word64Digits THEN v[k + (n \div 8)] ELSE 0]

\* v << n on uint64_t, n a multiple of 8: the bits shifted out are lost
ShiftLeft64(v, n) ==
    [k \in 1 .. Word64Digits |-> IF k - (n \div 8) >= 1 THEN v[k - (n \div 8)] ELSE 0]

\* v | w on uint64_t
Or64(v, w) == [k \in 1 .. Word64Digits |-> BitOr(v[k], w[k], 8)]

\* (uint64_t)b of a BYTE b
Widen64(b) == [k \in 1 .. Word64Digits |-> IF k = 1 THEN b ELSE 0]

\* (v >> n) & 0xFF stored to a BYTE
ByteAt(v, n) == ShiftRight64(v, n)[1]

\* ((uint64_t)b << n)
ByteTo(b, n) == ShiftLeft64(Widen64(b), n)

\* state[4][4] is a sequence of four rows of four bytes
unpack_state(lo, hi) ==
    << << ByteAt(lo, 56), ByteAt(lo, 48), ByteAt(lo, 40), ByteAt(lo, 32) >>,
       << ByteAt(lo, 24), ByteAt(lo, 16), ByteAt(lo, 8), ByteAt(lo, 0) >>,
       << ByteAt(hi, 56), ByteAt(hi, 48), ByteAt(hi, 40), ByteAt(hi, 32) >>,
       << ByteAt(hi, 24), ByteAt(hi, 16), ByteAt(hi, 8), ByteAt(hi, 0) >> >>

pack_state_lo(state) ==
    Or64(Or64(Or64(Or64(Or64(Or64(Or64(
        ByteTo(state[1][1], 56), ByteTo(state[1][2], 48)),
        ByteTo(state[1][3], 40)), ByteTo(state[1][4], 32)),
        ByteTo(state[2][1], 24)), ByteTo(state[2][2], 16)),
        ByteTo(state[2][3], 8)), Widen64(state[2][4]))

\* pack_state_hi with the shifts of state[3][2] and state[3][3] exchanged
pack_state_hi_Swapped(state) ==
    Or64(Or64(Or64(Or64(Or64(Or64(Or64(
        ByteTo(state[3][1], 56), ByteTo(state[3][2], 48)),
        ByteTo(state[3][3], 40)), ByteTo(state[3][4], 32)),
        ByteTo(state[4][1], 24)), ByteTo(state[4][2], 16)),
        ByteTo(state[4][4], 8)), Widen64(state[4][3]))

pack_state_hi(state) ==
    Or64(Or64(Or64(Or64(Or64(Or64(Or64(
        ByteTo(state[3][1], 56), ByteTo(state[3][2], 48)),
        ByteTo(state[3][3], 40)), ByteTo(state[3][4], 32)),
        ByteTo(state[4][1], 24)), ByteTo(state[4][2], 16)),
        ByteTo(state[4][3], 8)), Widen64(state[4][4]))

\* key[16] is a sequence of sixteen bytes
unpack_key(lo, hi) ==
    << ByteAt(lo, 56), ByteAt(lo, 48), ByteAt(lo, 40), ByteAt(lo, 32),
       ByteAt(lo, 24), ByteAt(lo, 16), ByteAt(lo, 8), ByteAt(lo, 0),
       ByteAt(hi, 56), ByteAt(hi, 48), ByteAt(hi, 40), ByteAt(hi, 32),
       ByteAt(hi, 24), ByteAt(hi, 16), ByteAt(hi, 8), ByteAt(hi, 0) >>

unpack_block(lo, hi) == unpack_key(lo, hi)

pack_block_lo(block) ==
    Or64(Or64(Or64(Or64(Or64(Or64(Or64(
        ByteTo(block[1], 56), ByteTo(block[2], 48)),
        ByteTo(block[3], 40)), ByteTo(block[4], 32)),
        ByteTo(block[5], 24)), ByteTo(block[6], 16)),
        ByteTo(block[7], 8)), Widen64(block[8]))

pack_block_hi(block) ==
    Or64(Or64(Or64(Or64(Or64(Or64(Or64(
        ByteTo(block[9], 56), ByteTo(block[10], 48)),
        ByteTo(block[11], 40)), ByteTo(block[12], 32)),
        ByteTo(block[13], 24)), ByteTo(block[14], 16)),
        ByteTo(block[15], 8)), Widen64(block[16]))

MaxPackCalls == 3

\* 0, 0x0102030405060708 and 0xff00807f102040fe
Word64Samples ==
    { <<0, 0, 0, 0, 0, 0, 0, 0>>,
      <<8, 7, 6, 5, 4, 3, 2, 1>>,
      <<254, 64, 32, 16, 127, 128, 0, 255>> }

StateSamples ==
    { << <<0, 0, 0, 0>>, <<0, 0, 0, 0>>, <<0, 0, 0, 0>>, <<0, 0, 0, 0>> >>,
      << <<17, 34, 51, 68>>, <<85, 102, 119, 136>>,
         <<153, 170, 187, 204>>, <<221, 238, 255, 1>> >> }

ArraySamples ==
    { <<0, 0, 0, 0, 0, 0, 0, 0, 0, 0, 0, 0, 0, 0, 0, 0>>,
      <<16, 32, 48, 64, 80, 96, 112, 128, 144, 160, 176, 192, 208, 224, 240, 15>> }

\* loc holds the scalars lo, hi and the arrays state, block of a wrapper
InitPack ==
    /\ InitMemory
    /\ pc = "harness"
    /\ loc \in [lo : Word64Samples, hi : Word64Samples,
                state : StateSamples, block : ArraySamples]

\* what a harness call leaves unchanged besides loc and hist
PackFrame == UNCHANGED <<host, K, K89, K1011, K1213, K1415, First, RetVal, pc>>

CallUnpackState ==
    /\ pc = "harness"
    /\ Len(hist) < MaxPackCalls
    /\ loc' = [loc EXCEPT !.state = unpack_state(loc.lo, loc.hi)]
    /\ hist' = Append(hist, [op |-> "unpack_state", in |-> <<loc.lo, loc.hi>>,
                             out |-> unpack_state(loc.lo, loc.hi)])
    /\ PackFrame

CallPackStateLo ==
    /\ pc = "harness"
    /\ Len(hist) < MaxPackCalls
    /\ loc' = [loc EXCEPT !.lo = pack_state_lo(loc.state)]
    /\ hist' = Append(hist, [op |-> "pack_state_lo", in |-> loc.state,
                             out |-> pack_state_lo(loc.state)])
    /\ PackFrame

CallPackStateHi ==
    /\ pc = "harness"
    /\ Len(hist) < MaxPackCalls
    /\ loc' = [loc EXCEPT !.hi = pack_state_hi(loc.state)]
    /\ hist' = Append(hist, [op |-> "pack_state_hi", in |-> loc.state,
                             out |-> pack_state_hi(loc.state)])
    /\ PackFrame

CallUnpackKey ==
    /\ pc = "harness"
    /\ Len(hist) < MaxPackCalls
    /\ loc' = [loc EXCEPT !.block = unpack_key(loc.lo, loc.hi)]
    /\ hist' = Append(hist, [op |-> "unpack_key", in |-> <<loc.lo, loc.hi>>,
                             out |-> unpack_key(loc.lo, loc.hi)])
    /\ PackFrame

CallUnpackBlock ==
    /\ pc = "harness"
    /\ Len(hist) < MaxPackCalls
    /\ loc' = [loc EXCEPT !.block = unpack_block(loc.lo, loc.hi)]
    /\ hist' = Append(hist, [op |-> "unpack_block", in |-> <<loc.lo, loc.hi>>,
                             out |-> unpack_block(loc.lo, loc.hi)])
    /\ PackFrame

CallPackBlockLo ==
    /\ pc = "harness"
    /\ Len(hist) < MaxPackCalls
    /\ loc' = [loc EXCEPT !.lo = pack_block_lo(loc.block)]
    /\ hist' = Append(hist, [op |-> "pack_block_lo", in |-> loc.block,
                             out |-> pack_block_lo(loc.block)])
    /\ PackFrame

CallPackBlockHi ==
    /\ pc = "harness"
    /\ Len(hist) < MaxPackCalls
    /\ loc' = [loc EXCEPT !.hi = pack_block_hi(loc.block)]
    /\ hist' = Append(hist, [op |-> "pack_block_hi", in |-> loc.block,
                             out |-> pack_block_hi(loc.block)])
    /\ PackFrame

NextPack ==
    \/ CallUnpackState
    \/ CallPackStateLo
    \/ CallPackStateHi
    \/ CallUnpackKey
    \/ CallUnpackBlock
    \/ CallPackBlockLo
    \/ CallPackBlockHi

SpecPack == InitPack /\ [][NextPack]_vars

-----------------------------------------------------------------------------
(* Properties *)

NoSetKeyBetween(i, j) == \A m \in (i + 1) .. (j - 1) : hist[m].op # "SetKey"

\* C1: after SetKey(k), a block that Encrypt turned into c and that Decrypt
\* is then given, with no SetKey between the two calls, comes back byte for
\* byte.
C1_RoundTrip ==
    \A i, j \in 1 .. Len(hist) :
        ( /\ i < j
          /\ hist[i].op = "Encrypt"
          /\ hist[j].op = "Decrypt"
          /\ hist[j].in = hist[i].out
          /\ KeyBefore(i) # <<>>
          /\ NoSetKeyBetween(i, j) )
        => hist[j].out = hist[i].in

C1_Witness ==
    /\ Len(hist) = 3
    /\ hist[1].op = "SetKey"
    /\ hist[2].op = "Encrypt"
    /\ hist[3].op = "Decrypt"
    /\ hist[3].in = hist[2].out
    /\ hist[2].out # hist[2].in
    /\ hist[3].out = hist[2].in

\* the schedule SetKey(KP) leaves when it is the first call of the program
FreshSchedule(KP) ==
    LET run == SetKeyRun(KP, [i \in 0 .. (NumSubkeys - 1) |-> Zeros(host.sizeofInt)],
                         Rot2Built)
    IN  <<run.K, run.K89, run.K1011, run.K1213, run.K1415>>

\* C2: the schedule SetKey(k) leaves is the one it leaves as the first call
\* of the program, whatever calls came before, and any two SetKey calls with
\* the same key leave the same schedule.
C2_SetKeyDeterministic ==
    /\ \A i, j \in 1 .. Len(hist) :
          (hist[i].op = "SetKey" /\ hist[j].op = "SetKey" /\ hist[i].in = hist[j].in)
          => hist[i].out = hist[j].out
    /\ (hist # <<>> /\ Last.op = "SetKey")
          => /\ globals = Last.out
             /\ globals = FreshSchedule(Last.in)

C2_Witness ==
    /\ Len(hist) = 3
    /\ hist[1].op = "SetKey"
    /\ hist[2].op = "SetKey"
    /\ hist[3].op = "SetKey"
    /\ hist[1].in # hist[2].in
    /\ hist[3].in = hist[1].in
    /\ hist[3].out = hist[1].out
    /\ hist[3].out # hist[2].out

\* C3: a step that is an Encrypt or a Decrypt call leaves K[0..15], K89,
\* K1011, K1213 and K1415 as they were; a step that changes one of them is a
\* SetKey call.
C3_ScheduleReadOnly ==
    [][ /\ (hist' # hist /\ hist'[Len(hist')].op \in {"Encrypt", "Decrypt"})
            => globals' = globals
        /\ globals' # globals => hist'[Len(hist')].op = "SetKey" ]_vars

C3_Witness ==
    /\ Len(hist) = 3
    /\ hist[1].op = "SetKey"
    /\ hist[2].op = "Encrypt"
    /\ hist[3].op = "Decrypt"
    /\ globals = hist[1].out
    /\ K[0] # Zeros(host.sizeofInt)

\* the globals at program start, before any SetKey
UnsetSchedule ==
    << [i \in 0 .. (NumSubkeys - 1) |-> Zeros(host.sizeofInt)],
       Zeros(host.sizeofLong), Zeros(host.sizeofLong),
       Zeros(host.sizeofLong), Zeros(host.sizeofLong) >>

\* C4: while an Encrypt or Decrypt call is running, K[0..15] and the four
\* whitening words are all derived from one key (or are all still as at
\* program start): never a mix of a key's values and the earlier values.
C4_NeverPartiallyDerived ==
    (Running \ {Setter} # {})
    => \/ globals = UnsetSchedule
       \/ \E KP \in ThreadKeys : globals = FreshSchedule(KP)

\* C5: once a SetKey has returned, the Rot2 table is built (no Encrypt or
\* Decrypt call is then the first to call Rot2), and every Encrypt or
\* Decrypt call begun with that schedule returns the block the same call
\* returns when it runs alone, whatever steps of another call interleave.
C5_ConcurrentAsAlone ==
    /\ (CurrentKey # <<>>) => (First = 0 /\ RetVal = Rot2Built)
    /\ \A i \in 1 .. Len(hist) :
          (hist[i].op # "SetKey" /\ hist[i].key # <<>>)
          => hist[i].out = hist[i].alone

C5_Witness ==
    /\ Len(hist) = 3
    /\ hist[1].op = "SetKey"
    /\ hist[2].op = "Encrypt"
    /\ hist[3].op = "Decrypt"
    /\ hist[2].with # {} \/ hist[3].with # {}
    /\ hist[2].out = hist[2].alone
    /\ hist[3].out = hist[3].alone
    /\ hist[3].out # hist[3].in

HacKey == <<1, 35, 69, 103, 137, 171, 205, 239>>

HacCipher == <<206, 239, 44, 134, 242, 73, 7, 82>>

ZeroBlock == <<0, 0, 0, 0, 0, 0, 0, 0>>

\* C6: with the key 01 23 45 67 89 ab cd ef set, the bytes of K[0] and K[1]
\* are df 3b ca 36, Encrypt of the all-zero block gives ce ef 2c 86 f2 49
\* 07 52, and Decrypt of that gives the all-zero block.
C6_KnownAnswer ==
    \A i \in 1 .. Len(hist) :
        /\ (hist[i].op = "SetKey" /\ hist[i].in = HacKey)
              => DissQ1(hist[i].out[1][0]) \o DissQ1(hist[i].out[1][1])
                    = <<223, 59, 202, 54>>
        /\ (hist[i].op = "Encrypt" /\ KeyBefore(i) = HacKey /\ hist[i].in = ZeroBlock)
              => hist[i].out = HacCipher
        /\ (hist[i].op = "Decrypt" /\ KeyBefore(i) = HacKey /\ hist[i].in = HacCipher)
              => hist[i].out = ZeroBlock

C6_Witness ==
    /\ Len(hist) = 3
    /\ hist[1].op = "SetKey" /\ hist[1].in = HacKey
    /\ hist[2].op = "Encrypt" /\ hist[2].in = ZeroBlock /\ hist[2].out = HacCipher
    /\ hist[3].op = "Decrypt" /\ hist[3].in = HacCipher /\ hist[3].out = ZeroBlock

\* the digits of a value above its low n bytes are zero
HighZero(v, n) == \A i \in (n + 1) .. Len(v) : v[i] = 0

AllWidthsKept ==
    /\ HighZero(K89, 4) /\ HighZero(K1011, 4)
    /\ HighZero(K1213, 4) /\ HighZero(K1415, 4)
    /\ \A i \in 0 .. (NumSubkeys - 1) : HighZero(K[i], 2)
    /\ \A c \in 1 .. Len(hist) : \A v \in hist[c].hw : HighZero(v, 4)

\* C8 as stated: on every host, every HalfWord produced or stored has its
\* bits above bit 31 zero and every K[i] its bits above bit 15.
C8_WidthsOnEveryHost == AllWidthsKept

\* C8 amended: on a little-endian host, every HalfWord produced or stored
\* has its bits above bit 31 zero and every K[i] its bits above bit 15.
C8_WidthsLittleEndian == host.endian = "little" => AllWidthsKept

C8_Witness ==
    /\ host = [endian |-> "little", sizeofLong |-> 8, sizeofInt |-> 4]
    /\ Len(hist) = 3
    /\ hist[1].op = "SetKey"
    /\ hist[2].op = "Encrypt"
    /\ hist[3].op = "Decrypt"
    /\ \E i \in 1 .. 4 : K89[i] # 0
    /\ \E v \in hist[2].hw : \E i \in 1 .. 4 : v[i] # 0
    /\ AllWidthsKept

\* (b0<<24)|(b1<<16)|(b2<<8)|b3 as a value of type unsigned long
Packed(b) ==
    [i \in 1 .. host.sizeofLong |-> IF i <= 4 THEN b[5 - i] ELSE 0]

\* b0|(b1<<8)|(b2<<16)|(b3<<24) as a value of type unsigned long
PackedLow(b) ==
    [i \in 1 .. host.sizeofLong |-> IF i <= 4 THEN b[i] ELSE 0]

\* ((b0<<24)|(b1<<16)|(b2<<8)|b3) << 32 as a value of type unsigned long
PackedHigh(b) ==
    [i \in 1 .. host.sizeofLong |-> IF i <= 4 THEN 0 ELSE b[9 - i]]

\* C7 as stated: on every host MakeH1 of the bytes b0,b1,b2,b3 is the number
\* (b0<<24)|(b1<<16)|(b2<<8)|b3.
C7_PackedOnEveryHost ==
    (hist # <<>> /\ Last.op = "MakeH1") => Last.out = Packed(Last.in)

\* C7 amended: MakeH1 of the bytes b0,b1,b2,b3 is the unsigned long whose
\* first four bytes in memory are b0,b1,b2,b3 and whose other bytes are
\* zero: b0|(b1<<8)|(b2<<16)|(b3<<24) on a little-endian host,
\* (b0<<24)|(b1<<16)|(b2<<8)|b3 on a big-endian host with a 4-byte long,
\* and that number shifted left by 32 on a big-endian host with an 8-byte
\* long.
C7_PackedByHost ==
    (hist # <<>> /\ Last.op = "MakeH1") =>
        Last.out = IF host.endian = "little" THEN PackedLow(Last.in)
                   ELSE IF host.sizeofLong = 4 THEN Packed(Last.in)
                   ELSE PackedHigh(Last.in)

C7_Witness ==
    /\ hist # <<>>
    /\ Last.op = "MakeH1"
    /\ Last.in = <<18, 0, 255, 255>>
    /\ host.endian = "little"
    /\ Last.out = PackedLow(Last.in)
    /\ Last.out # Packed(Last.in)

\* the bytes of v in memory outside the first n are zero
RestZero(v, n) == \A i \in (n + 1) .. Len(v) : ObjRep(v)[i] = 0

\* v with the bytes in memory outside the first n set to zero
RestCleared(v, n) ==
    ValueOf([i \in 1 .. Len(v) |-> IF i <= n THEN ObjRep(v)[i] ELSE 0])

\* the QuarterWord of two bytes, as SetKey assembles it in its union Q
MakeQ(b) == IntOfBytes(b)

\* C9 as stated: DissH1 undoes MakeH1, MakeH1 undoes DissH1 on every
\* HalfWord, and reassembling the two bytes of DissQ1 gives the QuarterWord
\* back.
C9_ExactInverses ==
    /\ (hist # <<>> /\ Last.op = "MakeH1") => DissH1(Last.out) = Last.in
    /\ (hist # <<>> /\ Last.op = "DissH1") => MakeH1(Last.out) = Last.in
    /\ (hist # <<>> /\ Last.op = "DissQ1") => MakeQ(Last.out) = Last.in

\* C9 amended: DissH1 undoes MakeH1 on every 4-byte sequence; MakeH1 of
\* DissH1(h) is h with the bytes outside the first four of its object
\* representation cleared, which is h exactly when those bytes are zero;
\* likewise for a QuarterWord and its first two bytes.
C9_InversesOnUnionBytes ==
    /\ (hist # <<>> /\ Last.op = "MakeH1") => DissH1(Last.out) = Last.in
    /\ (hist # <<>> /\ Last.op = "DissH1") =>
          /\ MakeH1(Last.out) = RestCleared(Last.in, 4)
          /\ (MakeH1(Last.out) = Last.in) <=> RestZero(Last.in, 4)
    /\ (hist # <<>> /\ Last.op = "DissQ1") =>
          /\ MakeQ(Last.out) = RestCleared(Last.in, 2)
          /\ (MakeQ(Last.out) = Last.in) <=> RestZero(Last.in, 2)

C9_Witness ==
    /\ hist # <<>>
    /\ Last.op = "DissH1"
    /\ host = [endian |-> "little", sizeofLong |-> 8, sizeofInt |-> 4]
    /\ Last.in = <<222, 173, 190, 239, 0, 0, 0, 0>>
    /\ Last.out = <<222, 173, 190, 239>>
    /\ MakeH1(Last.out) = Last.in

\* (x << 2) and (x >> 6) of C
ShiftLeft2(x) == x * 4

ShiftRight6(x) == x \div 64

\* ((x << 2) | (x >> 6)) & 0xFF
Rot2Direct(x) == BitOr(ShiftLeft2(x), ShiftRight6(x), 10) % 256

\* C10: every Rot2 call returns ((x << 2) | (x >> 6)) & 0xFF, the table
\* once built holds that value at every index, and a built table is never
\* stored to again.
C10_Rot2Table ==
    /\ []( /\ (hist # <<>> /\ Last.op = "Rot2") => Last.out = Rot2Direct(Last.in)
           /\ First = 0 => \A x \in ByteType : RetVal[x + 1] = Rot2Direct(x) )
    /\ [][First = 0 => (First' = 0 /\ RetVal' = RetVal)]_vars

C10_Witness ==
    /\ hist # <<>>
    /\ Last.op = "Rot2"
    /\ Last.in = 201
    /\ Last.out = 39
    /\ First = 0
    /\ RetVal[255 + 1] = 255 /\ RetVal[64 + 1] = 1 /\ RetVal[63 + 1] = 252

\* C11: a call on an array that has not exactly 8 bytes ends in an error:
\* it leaves the schedule as it was and produces no schedule and no output
\* block, neither from the first 8 bytes of a longer array nor from a
\* shorter array and the bytes after it.
C11_WrongLengthRejected ==
    \A i \in 1 .. Len(hist) :
        Len(hist[i].arg) # BlockLen
        => /\ hist[i].status = "error"
           /\ hist[i].out = <<>>
           /\ (i < Len(hist) => hist[i + 1].before = hist[i].before)
           /\ (i = Len(hist) => globals = hist[i].before)

\* the ops that unpack two scalars into an array, and those that pack
UnpackOps == {"unpack_state", "unpack_key", "unpack_block"}

\* the op that packs the low scalar of what op u unpacked, and the high one
PackLoOf(u) == IF u = "unpack_state" THEN "pack_state_lo" ELSE "pack_block_lo"

PackHiOf(u) == IF u = "unpack_state" THEN "pack_state_hi" ELSE "pack_block_hi"

\* the sixteen bytes of an array, state[4][4] row by row
Flat(a) == IF Len(a) = 4 THEN a[1] \o a[2] \o a[3] \o a[4] ELSE a

\* C12: packing what was unpacked from (lo, hi) returns lo and hi,
\* unpacking what was packed from an array returns the array, and a packed
\* lo holds byte 0 of the array in bits 63..56 (its most significant digit)
\* and a packed hi holds byte 15 in bits 7..0.
C12_PackRoundTrip ==
    /\ \A i, j \in 1 .. Len(hist) :
          (hist[i].op \in UnpackOps /\ hist[j].in = hist[i].out)
          => /\ hist[j].op = PackLoOf(hist[i].op) => hist[j].out = hist[i].in[1]
             /\ hist[j].op = PackHiOf(hist[i].op) => hist[j].out = hist[i].in[2]
    /\ \A i, j, k \in 1 .. Len(hist) :
          ( /\ hist[k].op \in UnpackOps
            /\ hist[i].op = PackLoOf(hist[k].op)
            /\ hist[j].op = PackHiOf(hist[k].op)
            /\ hist[j].in = hist[i].in
            /\ hist[k].in = <<hist[i].out, hist[j].out>> )
          => hist[k].out = hist[i].in
    /\ \A i \in 1 .. Len(hist) :
          /\ hist[i].op \in {"pack_state_lo", "pack_block_lo"}
             => hist[i].out[Word64Digits] = Flat(hist[i].in)[1]
          /\ hist[i].op \in {"pack_state_hi", "pack_block_hi"}
             => hist[i].out[1] = Flat(hist[i].in)[16]

C12_Witness ==
    /\ Len(hist) = 3
    /\ hist[1].op = "pack_state_lo"
    /\ hist[2].op = "pack_state_hi"
    /\ hist[3].op = "unpack_state"
    /\ hist[1].in[1] = <<17, 34, 51, 68>>
    /\ hist[1].out = <<136, 119, 102, 85, 68, 51, 34, 17>>
    /\ hist[3].out = hist[1].in
    /\ loc.lo # loc.hi

\* The schedule as C13 states it.  ClaimStep is one iteration on (A, B, D):
\* NewB = FK(A, B xor D), then D := A, A := B, B := NewB.
ClaimStep(st, T) ==
    [A |-> st.B, B |-> FK(st.A, XorW(st.B, st.D), T), D |-> st.A]

\* the values of B after iterations i .. 8, appended to acc
RECURSIVE ClaimBs(_, _, _, _)
ClaimBsNext(i, nx, T, acc) == ClaimBs(i + 1, nx, T, Append(acc, nx.B))

ClaimBs(i, st, T, acc) ==
    IF i > Rounds THEN acc ELSE ClaimBsNext(i, ClaimStep(st, T), T, acc)

\* B after each of the 8 iterations, for the key KP
BsOf(KP) ==
    ClaimBs(1, [A |-> MakeH1(SubSeq(KP, 1, 4)), B |-> MakeH1(SubSeq(KP, 5, 8)),
                D |-> Zeros(host.sizeofLong)],
            Rot2Built, <<>>)

\* whether the schedule sch = <<K, K89, K1011, K1213, K1415>> is the one
\* C13 states, Bs being B after each iteration
ScheduleAsStated(sch, Bs) ==
    /\ \A i \in 1 .. Rounds :
          /\ sch[1][2 * i - 2] = MakeQ(SubSeq(DissH1(Bs[i]), 1, 2))
          /\ sch[1][2 * i - 1] = MakeQ(SubSeq(DissH1(Bs[i]), 3, 4))
    /\ \A w \in 0 .. 3 :
          /\ sch[2 + w] = MakeH2(<<sch[1][8 + 2 * w], sch[1][9 + 2 * w]>>)
          /\ DissH1(sch[2 + w]) = DissH1(Bs[5 + w])

\* C13: the schedule a SetKey call leaves is the one computed as stated:
\* from A = key[0..3], B = key[4..7], D = 0 by eight iterations
\* NewB = FK(A, B xor D); D := A; A := B; B := NewB, with K[2i-2], K[2i-1]
\* made of bytes (B[0],B[1]) and (B[2],B[3]) of B after iteration i, and
\* K89, K1011, K1213, K1415 packed from K[8..15], so that they hold the
\* four bytes of B after iterations 5, 6, 7 and 8.
C13_ScheduleAsStated ==
    (hist # <<>> /\ Last.op = "SetKey")
    => /\ ScheduleAsStated(Last.out, BsOf(Last.in))
       /\ globals = Last.out

C13_Witness ==
    /\ Len(hist) = 2
    /\ hist[1].op = "SetKey"
    /\ Last.op = "SetKey"
    /\ Last.in = HacKey
    /\ hist[1].in # HacKey
    /\ DissQ1(K[0]) = <<223, 59>>
    /\ DissH1(K1415) = DissH1(BsOf(HacKey)[8])
    /\ DissH1(K1415) = DissQ1(K[14]) \o DissQ1(K[15])
    /\ K89 # K1011

\* S0 and S1 as C14 states them, on rot2(x) = ((x << 2) | (x >> 6)) & 0xFF
ClaimS0(x, y) == Rot2Direct((x + y) % 256)

ClaimS1(x, y) == Rot2Direct((x + y + 1) % 256)

\* u1 and u2 of C14, a being the bytes a0..a3 and b the bytes b0, b1
ClaimU1(a, b) == ClaimS1(Xor(Xor(a[2], b[1]), a[1]), Xor(Xor(a[3], b[2]), a[4]))

ClaimU2(a, b) == ClaimS0(Xor(Xor(a[3], b[2]), a[4]), ClaimU1(a, b))

\* the bytes of f(A, B) as C14 states them
ClaimF(a, b) ==
    << ClaimS0(a[1], ClaimU1(a, b)), ClaimU1(a, b), ClaimU2(a, b),
       ClaimS1(a[4], ClaimU2(a, b)) >>

\* C14: S0(x, y) is rot2((x + y) mod 256), S1(x, y) is
\* rot2((x + y + 1) mod 256), and f(A, B) is the halfword made of the bytes
\* (S0(a0,u1), u1, u2, S1(a3,u2)) with u1 = S1(a1^b0^a0, a2^b1^a3) and
\* u2 = S0(a2^b1^a3, u1), a0..a3 being the bytes of A that DissH1 gives and
\* b0, b1 those of B that DissQ1 gives: whether or not Rot2 was called
\* before, the result is this function of (A, B).
C14_RoundFunction ==
    /\ (hist # <<>> /\ Last.op = "S0") => Last.out = ClaimS0(Last.in[1], Last.in[2])
    /\ (hist # <<>> /\ Last.op = "S1") => Last.out = ClaimS1(Last.in[1], Last.in[2])
    /\ (hist # <<>> /\ Last.op = "f")
       => /\ DissH1(Last.out) = ClaimF(DissH1(Last.in[1]), DissQ1(Last.in[2]))
          /\ Last.out = MakeH1(ClaimF(DissH1(Last.in[1]), DissQ1(Last.in[2])))

C14_Witness ==
    /\ hist # <<>>
    /\ Last.op = "f"
    /\ Last.first = 0
    /\ DissH1(Last.in[1]) = <<1, 2, 3, 4>>
    /\ DissQ1(Last.in[2]) = <<255, 0>>
    /\ DissH1(Last.out)[2] = ClaimS1(Xor(Xor(2, 255), 1), Xor(Xor(3, 0), 4))
    /\ DissH1(Last.out)[2] # DissH1(Last.out)[3]

\* the subkey indices in the order Encrypt and Decrypt are to use them
EncryptOrder == [i \in 1 .. Rounds |-> i - 1]

DecryptOrder == [i \in 1 .. Rounds |-> Rounds - i]

\* the order for the call that thread t is running
OrderOf(t) == IF loc[t].op = "Encrypt" THEN EncryptOrder ELSE DecryptOrder

\* C15: a running Encrypt or Decrypt call has passed to f the first subkeys
\* of K[0], K[1], ..., K[7] (Encrypt) or K[7], ..., K[0] (Decrypt), one per
\* round; a call that has returned has evaluated f exactly 8 times, with
\* exactly these subkeys in this order; and every call that has begun
\* returns.
C15_RoundOrder ==
    /\ [](\A t \in DOMAIN pc :
            pc[t] = "rounds"
            => /\ Len(loc[t].ks) <= Rounds
               /\ loc[t].ks = SubSeq(OrderOf(t), 1, Len(loc[t].ks)))
    /\ [](\A i \in 1 .. Len(hist) :
            /\ hist[i].op = "Encrypt" => hist[i].ks = EncryptOrder
            /\ hist[i].op = "Decrypt" => hist[i].ks = DecryptOrder)
    /\ \A t \in {"r1"} : (pc[t] = "rounds") ~> (pc[t] = "idle")

C15_Witness ==
    /\ Len(hist) = 2
    /\ hist[1].op = "Encrypt"
    /\ hist[1].ks = <<0, 1, 2, 3, 4, 5, 6, 7>>
    /\ hist[2].op = "Decrypt"
    /\ hist[2].ks = <<7, 6, 5, 4, 3, 2, 1, 0>>
    /\ hist[2].in = hist[1].in
    /\ hist[1].out # hist[1].in
    /\ pc["r1"] = "idle"

\* what the call op(in) returns when the schedule is sch
ReturnedWith(op, in, sch) ==
    IF op = "Encrypt"
    THEN EncryptRun(in, sch[1], sch[2], sch[3], sch[4], sch[5], Rot2Built).out
    ELSE DecryptRun(in, sch[1], sch[2], sch[3], sch[4], sch[5], Rot2Built).out

\* C16: an Encrypt or Decrypt call that comes after at least one SetKey
\* returns what the same call returns right after a single SetKey, at
\* program start, with the key set last: the earlier keys, the earlier
\* blocks and the number of earlier calls make no difference.
C16_LastKey ==
    (/\ hist # <<>>
     /\ Last.op \in {"Encrypt", "Decrypt"}
     /\ KeyBefore(Len(hist)) # <<>>)
    => Last.out = ReturnedWith(Last.op, Last.in, FreshSchedule(KeyBefore(Len(hist))))

C16_Witness ==
    /\ Len(hist) = 3
    /\ hist[1].op = "SetKey"
    /\ hist[2].op = "SetKey"
    /\ hist[1].in # hist[2].in
    /\ Last.op = "Encrypt"
    /\ Last.out = ReturnedWith("Encrypt", Last.in, FreshSchedule(hist[2].in))
    /\ Last.out # ReturnedWith("Encrypt", Last.in, FreshSchedule(hist[1].in))

\* C17: whatever the schedule is, the zero schedule of program start
\* included, a block c that Decrypt turned into p and that Encrypt is then
\* given, with no SetKey between the two calls, comes back as c; and two
\* Encrypt calls under one schedule with different blocks return different
\* blocks.
C17_MutuallyInverse ==
    \A i, j \in 1 .. Len(hist) :
        (i < j /\ NoSetKeyBetween(i, j) /\ hist[j].op = "Encrypt")
        => /\ (hist[i].op = "Decrypt" /\ hist[j].in = hist[i].out)
                => hist[j].out = hist[i].in
           /\ (hist[i].op = "Encrypt" /\ hist[j].in # hist[i].in)
                => hist[j].out # hist[i].out

C17_Witness ==
    /\ Len(hist) = 2
    /\ hist[1].op = "Decrypt"
    /\ hist[2].op = "Encrypt"
    /\ globals = UnsetSchedule
    /\ hist[1].out # hist[1].in
    /\ hist[2].in = hist[1].out
    /\ hist[2].out = hist[1].in

====
